---- MODULE Spec2Model ----
(***************************************************************************)
(* One run of the dynamic-DNS updater, in either of its two programs:      *)
(*   Flow A  src/main.py             echo service -> one A record          *)
(*   Flow B  src/unifi_ddns/main.py  UniFi controller -> A / AAAA records  *)
(* The environment (process environment variables, HTTP responses, the    *)
(* DNS provider's answer) is drawn from small sets.  Python values are     *)
(* modelled as: None -> NoneVal, str -> a TLA+ string (Flow B) or a        *)
(* sequence of characters (the echo body of Flow A, which is stripped),    *)
(* list -> a sequence, dict -> a record.                                   *)
(***************************************************************************)
EXTENDS Naturals, Integers, Sequences, FiniteSets, TLC

VARIABLES
    flow,            \* which program runs: "A" or "B"
    env,             \* the process environment: setting name -> value
    pc,              \* position of the run in the program
    exitCode,        \* process exit status; NoExit while running
    session,         \* Flow B requests.Session: "none", "open", "closed"
    calls,           \* outbound calls issued so far, in order
    resps,           \* HTTP responses received so far, one per HTTP call
    gateway_device,  \* Flow B: <<>> (None) or <<device>>
    ipv4,            \* Flow B: extracted IPv4 (NoneVal when absent)
    ipv6,            \* Flow B: extracted IPv6 (NoneVal when absent)
    current_ip,      \* Flow A: result of get_public_ip
    dnsOutcome       \* what became of the DNS step

vars == <<flow, env, pc, exitCode, session, calls, resps, gateway_device,
          ipv4, ipv6, current_ip, dnsOutcome>>

----------------------------------------------------------------------------
(* Bounds of the enumerated inputs *)

MaxDevices == 2
MaxBody == 3

(* Program constants *)

TTL == 300

----------------------------------------------------------------------------
(* Python values *)

NoneVal == "<None>"
NoExit == 0 - 1

\* Python truthiness of an Optional[str]: None and "" are falsy.
Truthy(v) == v /= NoneVal /\ v /= ""

\* requests.Response.raise_for_status(): raises HTTPError for 4xx and 5xx.
raise_for_status(status) == status >= 400 /\ status < 600

\* Variant: the session is left as it is when the block is left.
Session_exit_leaves_open(s) == s

\* Context-manager exit of `with requests.Session() as session`: the session
\* is closed however the block is left (return, sys.exit, exception).
Session_exit(s) == IF s = "open" THEN "closed" ELSE s

----------------------------------------------------------------------------
(* Inputs: the process environment *)

SettingsA == {"HOSTED_ZONE_ID", "RECORD_NAME"}
SettingsB == {"UNIFI_IP", "UNIFI_USER", "UNIFI_PASS",
              "ROUTE53_ZONE_ID", "ROUTE53_RECORD_NAME"}

\* A setting is unset (os.getenv gives None), set to "", or set to a value.
SettingValues(k) == {NoneVal, "", "v_" \o k}

EnvsA == {e \in [SettingsA -> UNION {SettingValues(k) : k \in SettingsA}] :
            \A k \in SettingsA : e[k] \in SettingValues(k)}
EnvsB == {e \in [SettingsB -> UNION {SettingValues(k) : k \in SettingsB}] :
            \A k \in SettingsB : e[k] \in SettingValues(k)}

----------------------------------------------------------------------------
(* Inputs: HTTP responses.  A response is a transport failure (no status)  *)
(* or an HTTP response with a status and a body.                           *)

TransportError == [kind |-> "error", status |-> 0, body |-> <<>>]
Http(status, body) == [kind |-> "http", status |-> status, body |-> body]

\* Echo service (Flow A): the body is text, a sequence of characters.
Whitespace == {" ", "\n"}
Chars == Whitespace \cup {"7"}
Bodies == UNION {[1..n -> Chars] : n \in 0..MaxBody}
EchoStatuses == {200, 304, 404, 503}
EchoResponses == {TransportError} \cup {Http(s, b) : s \in EchoStatuses, b \in Bodies}

\* Login (Flow B): only the status is read.
LoginStatuses == {200, 401, 403, 500}
LoginResponses == {TransportError} \cup {Http(s, <<>>) : s \in LoginStatuses}

\* Device list (Flow B): the body is JSON text.  A WAN descriptor is absent
\* from the device, present but no JSON object (null), or an object whose ip
\* is absent/null, "" or an address and whose ipv6 is absent/null, no list,
\* or a list of addresses.
V4 == "198.51.100.4"
V6a == "2001:db8::1"
V6b == "2001:db8::2"
IpFields == {NoneVal, "", V4}
NoV6Field == [kind |-> "absent", items |-> <<>>]
V6Fields == {NoV6Field, [kind |-> "scalar", items |-> <<>>]}
            \cup {[kind |-> "list", items |-> l] :
                    l \in {<<>>, <<V6a>>, <<V6a, V6b>>}}
AbsentWan == [kind |-> "absent", ip |-> NoneVal, ipv6 |-> NoV6Field]
NullWan == [kind |-> "null", ip |-> NoneVal, ipv6 |-> NoV6Field]
Wans == {AbsentWan, NullWan}
        \cup {[kind |-> "object", ip |-> i, ipv6 |-> f] : i \in IpFields, f \in V6Fields}
DeviceTypes == {"ugw", "udm", "ucg", "usw"}
Devices == [type : DeviceTypes, wan1 : Wans]
DeviceLists == UNION {[1..n -> Devices] : n \in 0..MaxDevices}

Json(kind, data) == [json |-> kind, data |-> data]
DeviceBodies == {Json("malformed", <<>>), Json("no_data_key", <<>>), Json("data_null", <<>>)}
                \cup {Json("data_list", l) : l \in DeviceLists}
DeviceErrorStatuses == {404, 500}
DeviceResponses == {TransportError}
                   \cup {Http(s, Json("malformed", <<>>)) : s \in DeviceErrorStatuses}
                   \cup {Http(200, b) : b \in DeviceBodies}

\* What the provider call (boto3 change_resource_record_sets) does: it
\* returns, or raises NoCredentialsError, ClientError or another exception
\* (a transport failure such as EndpointConnectionError).
ProviderOutcomes == {"ok", "NoCredentialsError", "ClientError", "OtherError"}

----------------------------------------------------------------------------
(* Outbound calls *)

Call(kind, zone, changes) == [kind |-> kind, zone |-> zone, changes |-> changes]
EchoGet == Call("echo_get", NoneVal, <<>>)
LoginPost == Call("login_post", NoneVal, <<>>)
DevicesGet == Call("devices_get", NoneVal, <<>>)
DnsUpsert(zone, changes) == Call("dns_upsert", zone, changes)

Upsert(name, type, value) ==
    [Action |-> "UPSERT", Name |-> name, Type |-> type, TTL |-> TTL, Value |-> value]

----------------------------------------------------------------------------
(* Flow A: src/main.py *)

RECURSIVE lstrip(_)
lstrip(s) == IF s /= <<>> /\ Head(s) \in Whitespace THEN lstrip(Tail(s)) ELSE s

RECURSIVE rstrip(_)
rstrip(s) == IF s /= <<>> /\ s[Len(s)] \in Whitespace
             THEN rstrip(SubSeq(s, 1, Len(s) - 1)) ELSE s

\* Variant: only the leading whitespace is removed.
strip_leading_only(s) == lstrip(s)

\* str.strip()
strip(s) == rstrip(lstrip(s))

None == [none |-> TRUE, text |-> <<>>]
Some(text) == [none |-> FALSE, text |-> text]

\* The value get_public_ip returns for a response: None on any exception
\* (transport failure, raise_for_status), else the stripped body.
public_ip_of(r) ==
    IF r.kind = "error" THEN None
    ELSE IF raise_for_status(r.status) THEN None
    ELSE Some(strip(r.body))

\* `not zone_id or not record_name`
config_missing_A(e) == ~Truthy(e["HOSTED_ZONE_ID"]) \/ ~Truthy(e["RECORD_NAME"])

\* The change batch of update_dns: one A record.
change_batch_A(ip, record_name) == <<Upsert(record_name, "A", ip)>>

A_main_config ==
    /\ flow = "A" /\ pc = "start"
    /\ IF config_missing_A(env)
       THEN pc' = "exited" /\ exitCode' = 1
       ELSE pc' = "get_public_ip" /\ exitCode' = exitCode
    /\ UNCHANGED <<flow, env, session, calls, resps, gateway_device, ipv4, ipv6,
                   current_ip, dnsOutcome>>

\* get_public_ip and the `if current_ip:` of the main block; falling off the
\* end of the script is exit status 0.
get_public_ip ==
    /\ flow = "A" /\ pc = "get_public_ip"
    /\ \E r \in EchoResponses :
        /\ calls' = Append(calls, EchoGet)
        /\ resps' = Append(resps, r)
        /\ current_ip' = public_ip_of(r)
        /\ IF ~public_ip_of(r).none /\ public_ip_of(r).text /= <<>>
           THEN pc' = "update_dns" /\ exitCode' = exitCode /\ dnsOutcome' = dnsOutcome
           ELSE pc' = "exited" /\ exitCode' = 0 /\ dnsOutcome' = "skipped"
    /\ UNCHANGED <<flow, env, session, gateway_device, ipv4, ipv6>>

\* update_dns: every exception of the provider call is caught and printed.
update_dns ==
    /\ flow = "A" /\ pc = "update_dns"
    /\ \E out \in ProviderOutcomes :
        /\ calls' = Append(calls, DnsUpsert(env["HOSTED_ZONE_ID"],
                              change_batch_A(current_ip.text, env["RECORD_NAME"])))
        /\ dnsOutcome' = out
    /\ pc' = "exited" /\ exitCode' = 0
    /\ UNCHANGED <<flow, env, session, resps, gateway_device, ipv4, ipv6, current_ip>>

----------------------------------------------------------------------------
(* Flow B: src/unifi_ddns/main.py *)

\* Variant: the record name is left out of the validated settings.
config_missing_B_without_record_name(e) ==
    \E k \in SettingsB \ {"ROUTE53_RECORD_NAME"} : ~Truthy(e[k])

\* `not all([unifi_ip, api_user, api_pass, route53_zone_id, route53_record_name])`
config_missing_B(e) == \E k \in SettingsB : ~Truthy(e[k])

\* Variant: a failed login is tried again.
pc_after_login_failed_retry == "unifi_login"

\* `sys.exit(1) # Exit if login fails`: the run ends, nothing is retried.
pc_after_login_failed == "exited"

\* Variant: the 401 branch returns True.
login_ok_on_401(r) ==
    IF r.kind = "error" THEN FALSE
    ELSE IF r.status = 401 THEN TRUE
    ELSE ~raise_for_status(r.status)

\* unifi_login's return value for a response.
login_ok(r) ==
    IF r.kind = "error" THEN FALSE
    ELSE IF r.status = 401 THEN FALSE
    ELSE ~raise_for_status(r.status)

\* Variant: every device counts as a gateway.
is_gateway_any(device) == device.type \in DeviceTypes

\* `device.get('type') in ['ugw', 'udm', 'ucg']`
is_gateway(device) == device.type \in {"ugw", "udm", "ucg"}

\* Variant: the loop keeps scanning and ends with the last matching device.
RECURSIVE first_gateway_last(_)
first_gateway_last(devices_data) ==
    IF devices_data = <<>> THEN <<>>
    ELSE IF first_gateway_last(Tail(devices_data)) /= <<>>
         THEN first_gateway_last(Tail(devices_data))
    ELSE IF is_gateway(Head(devices_data)) THEN <<Head(devices_data)>>
    ELSE <<>>

\* The for loop of get_gateway_info: the first matching device, else None.
RECURSIVE first_gateway(_)
first_gateway(devices_data) ==
    IF devices_data = <<>> THEN <<>>
    ELSE IF is_gateway(Head(devices_data)) THEN <<Head(devices_data)>>
    ELSE first_gateway(Tail(devices_data))

\* `response.json().get('data', [])`
devices_data_of(body) == IF body.json = "data_list" THEN body.data ELSE <<>>

\* Whether get_gateway_info lets an exception escape: iterating a null data
\* value is a TypeError, which neither except clause catches.
gateway_info_raises(r) ==
    /\ r.kind = "http" /\ ~raise_for_status(r.status)
    /\ r.body.json = "data_null"

\* The value get_gateway_info returns when it returns.
gateway_info_of(r) ==
    IF r.kind = "error" THEN <<>>
    ELSE IF raise_for_status(r.status) THEN <<>>
    ELSE IF r.body.json = "malformed" THEN <<>>
    ELSE first_gateway(devices_data_of(r.body))

\* `wan_info.get('ip')` with wan_info = gateway_device.get('wan1', {})
extract_ipv4(device) == device.wan1.ip

\* `ipv6_list[0] if isinstance(ipv6_list, list) and ipv6_list else None`
extract_ipv6(device) ==
    IF device.wan1.ipv6.kind = "list" /\ device.wan1.ipv6.items /= <<>>
    THEN device.wan1.ipv6.items[1]
    ELSE NoneVal

\* Variant: the addresses are tested with `is None` instead of truthiness.
no_addresses_is_none(v4, v6) == v4 = NoneVal /\ v6 = NoneVal

\* `not any([ipv4, ipv6])`
no_addresses(v4, v6) == ~(Truthy(v4) \/ Truthy(v6))

\* Variant: the second `if` is an `elif`.
changes_B_elif(record_name, v4, v6) ==
    IF Truthy(v4) THEN <<[Action |-> "UPSERT", Name |-> record_name, Type |-> "A",
                          TTL |-> TTL, Value |-> v4]>>
    ELSE IF Truthy(v6) THEN <<[Action |-> "UPSERT", Name |-> record_name,
                               Type |-> "AAAA", TTL |-> TTL, Value |-> v6]>>
    ELSE <<>>

\* The Changes list of update_route53_records.
changes_B(record_name, v4, v6) ==
    (IF Truthy(v4) THEN <<Upsert(record_name, "A", v4)>> ELSE <<>>)
    \o (IF Truthy(v6) THEN <<Upsert(record_name, "AAAA", v6)>> ELSE <<>>)

\* Exit status after the provider call: NoCredentialsError and ClientError
\* are caught and printed; any other exception escapes main.
exit_after_update(out) == IF out = "OtherError" THEN 1 ELSE 0

B_main_config ==
    /\ flow = "B" /\ pc = "start"
    /\ IF config_missing_B(env)
       THEN pc' = "exited" /\ exitCode' = 1 /\ session' = session
       ELSE pc' = "unifi_login" /\ exitCode' = exitCode /\ session' = "open"
    /\ UNCHANGED <<flow, env, calls, resps, gateway_device, ipv4, ipv6,
                   current_ip, dnsOutcome>>

unifi_login ==
    /\ flow = "B" /\ pc = "unifi_login"
    /\ \E r \in LoginResponses :
        /\ calls' = Append(calls, LoginPost)
        /\ resps' = Append(resps, r)
        /\ IF login_ok(r)
           THEN pc' = "get_gateway_info" /\ exitCode' = exitCode /\ session' = session
           ELSE /\ pc' = pc_after_login_failed
                /\ exitCode' = 1 /\ session' = Session_exit(session)
    /\ UNCHANGED <<flow, env, gateway_device, ipv4, ipv6, current_ip, dnsOutcome>>

get_gateway_info ==
    /\ flow = "B" /\ pc = "get_gateway_info"
    /\ \E r \in DeviceResponses :
        /\ calls' = Append(calls, DevicesGet)
        /\ resps' = Append(resps, r)
        /\ IF gateway_info_raises(r)
           THEN /\ gateway_device' = gateway_device
                /\ pc' = "exited" /\ exitCode' = 1 /\ session' = Session_exit(session)
           ELSE /\ gateway_device' = gateway_info_of(r)
                /\ IF gateway_info_of(r) = <<>>
                   THEN pc' = "exited" /\ exitCode' = 1 /\ session' = Session_exit(session)
                   ELSE pc' = "extract" /\ exitCode' = exitCode /\ session' = session
    /\ UNCHANGED <<flow, env, ipv4, ipv6, current_ip, dnsOutcome>>

\* main, step 4: a wan1 that is null makes wan_info.get raise.
extract ==
    /\ flow = "B" /\ pc = "extract"
    /\ IF gateway_device[1].wan1.kind = "null"
       THEN /\ pc' = "exited" /\ exitCode' = 1 /\ session' = Session_exit(session)
            /\ UNCHANGED <<ipv4, ipv6>>
       ELSE /\ ipv4' = extract_ipv4(gateway_device[1])
            /\ ipv6' = extract_ipv6(gateway_device[1])
            /\ pc' = "update_route53_records"
            /\ UNCHANGED <<exitCode, session>>
    /\ UNCHANGED <<flow, env, calls, resps, gateway_device, current_ip, dnsOutcome>>

update_route53_records ==
    /\ flow = "B" /\ pc = "update_route53_records"
    /\ IF no_addresses(ipv4, ipv6)
       THEN /\ dnsOutcome' = "skipped" /\ exitCode' = 0
            /\ calls' = calls
       ELSE \E out \in ProviderOutcomes :
            /\ calls' = Append(calls, DnsUpsert(env["ROUTE53_ZONE_ID"],
                                  changes_B(env["ROUTE53_RECORD_NAME"], ipv4, ipv6)))
            /\ dnsOutcome' = out
            /\ exitCode' = exit_after_update(out)
    /\ pc' = "exited"
    /\ session' = Session_exit(session)
    /\ UNCHANGED <<flow, env, resps, gateway_device, ipv4, ipv6, current_ip>>

----------------------------------------------------------------------------
(* The run *)

Init ==
    /\ flow \in {"A", "B"}
    /\ env \in (IF flow = "A" THEN EnvsA ELSE EnvsB)
    /\ pc = "start"
    /\ exitCode = NoExit
    /\ session = "none"
    /\ calls = <<>>
    /\ resps = <<>>
    /\ gateway_device = <<>>
    /\ ipv4 = NoneVal
    /\ ipv6 = NoneVal
    /\ current_ip = None
    /\ dnsOutcome = "none"

NextA == A_main_config \/ get_public_ip \/ update_dns
NextB == B_main_config \/ unifi_login \/ get_gateway_info \/ extract
         \/ update_route53_records
Next == NextA \/ NextB

Spec == Init /\ [][Next]_vars

\* Every step of Flow B is a blocking call bounded by a timeout (timeout=10
\* on both controller calls), so a started Flow B run keeps taking steps.
FairSpec == Spec /\ WF_vars(NextB)

----------------------------------------------------------------------------
(* Vocabulary of the properties, stated on the run's observable history    *)
(* (the environment, the calls issued, the responses received, the exit    *)
(* status) and not through the operators the actions use.                  *)

Exited == pc = "exited"
Issued(kind) == \E i \in 1..Len(calls) : calls[i].kind = kind
CountIssued(kind) == Cardinality({i \in 1..Len(calls) : calls[i].kind = kind})
Absent(v) == v = NoneVal \/ v = ""
ErrorStatus(status) == status \in 400..599

RequiredSettings ==
    IF flow = "A" THEN {"HOSTED_ZONE_ID", "RECORD_NAME"}
    ELSE {"UNIFI_IP", "UNIFI_USER", "UNIFI_PASS", "ROUTE53_ZONE_ID", "ROUTE53_RECORD_NAME"}
ConfigIncomplete == \E k \in RequiredSettings : Absent(env[k])

----------------------------------------------------------------------------
\* C1: in both flows, a run whose configuration lacks a required setting of
\* its flow (unset or empty) makes no network call at all and, once it has
\* taken its first step, has terminated with exit code 1.
C1_MissingConfigExits1NoCalls ==
    ConfigIncomplete =>
        /\ calls = <<>>
        /\ pc /= "start" => (Exited /\ exitCode = 1)

C1_Witness ==
    /\ flow = "B" /\ Exited /\ exitCode = 1
    /\ env["ROUTE53_RECORD_NAME"] = ""
    /\ \A k \in RequiredSettings \ {"ROUTE53_RECORD_NAME"} : ~Absent(env[k])

\* C2 (as claimed): a finished run has exit status 0 exactly when its DNS
\* update was submitted successfully or was skipped; every fatal step,
\* any failed DNS submission included, gives a non-zero status.
C2_ExitZeroIffSubmittedOrSkipped ==
    Exited => (exitCode = 0 <=> dnsOutcome \in {"ok", "skipped"})

LoginFailed ==
    /\ flow = "B" /\ Len(resps) >= 1
    /\ \/ resps[1].kind = "error"
       \/ resps[1].status = 401
       \/ ErrorStatus(resps[1].status)

\* C3: in Flow B, once the login POST has come back with status 401, or with
\* a transport error or another error status, the run has exited with code 1
\* and has issued neither the device-list GET nor the DNS upsert.
C3_LoginFailureShortCircuits ==
    LoginFailed =>
        /\ Exited /\ exitCode = 1
        /\ ~Issued("devices_get") /\ ~Issued("dns_upsert")

C3_Witness ==
    /\ flow = "B" /\ Len(resps) = 1 /\ resps[1].kind = "http" /\ resps[1].status = 401
    /\ Exited /\ calls = <<LoginPost>>

DeviceListOf(r) ==
    IF r.kind = "http" /\ ~ErrorStatus(r.status) /\ r.body.json = "data_list"
    THEN r.body.data ELSE <<>>
GatewayAt(l, i) == l[i].type \in {"ugw", "udm", "ucg"}
NoGatewayListed ==
    /\ flow = "B" /\ Len(resps) >= 2
    /\ \A i \in 1..Len(DeviceListOf(resps[2])) : ~GatewayAt(DeviceListOf(resps[2]), i)

\* C4: in Flow B, once the device-list GET has come back without any device
\* of a recognized gateway type (ugw, udm, ucg) -- a transport or status
\* error, malformed JSON, no data list, an empty list, or only other devices
\* -- the run has exited with code 1 and has issued no DNS upsert.
C4_NoGatewayExits1NoUpsert ==
    NoGatewayListed => (Exited /\ exitCode = 1 /\ ~Issued("dns_upsert"))

C4_Witness ==
    /\ NoGatewayListed /\ Exited /\ exitCode = 1
    /\ Len(DeviceListOf(resps[2])) = 2

\* The run got past the extraction of step 4 of main (a gateway was found
\* and its wan1, when present, is an object), so ipv4 and ipv6 hold the
\* extracted values.
Extracted ==
    /\ flow = "B" /\ gateway_device /= <<>>
    /\ gateway_device[1].wan1.kind /= "null"
    /\ pc \in {"update_route53_records", "exited"}

\* C5: in Flow B, a finished run that found a gateway and extracted neither
\* an ipv4 nor an ipv6 (each null or empty) has made no provider call and
\* has exit code 0.
C5_BothAbsentSkipsExit0 ==
    (Extracted /\ Exited /\ Absent(ipv4) /\ Absent(ipv6)) =>
        (~Issued("dns_upsert") /\ exitCode = 0)

C5_Witness ==
    /\ Extracted /\ Exited /\ ipv4 = "" /\ ipv6 = NoneVal
    /\ exitCode = 0 /\ dnsOutcome = "skipped"

Directive(type, value) ==
    [Action |-> "UPSERT", Name |-> env["ROUTE53_RECORD_NAME"], Type |-> type,
     TTL |-> 300, Value |-> value]
Expected(type, value) == IF Absent(value) THEN {} ELSE {Directive(type, value)}
BatchIsExactly(changes) ==
    /\ {changes[i] : i \in 1..Len(changes)} = Expected("A", ipv4) \cup Expected("AAAA", ipv6)
    /\ Len(changes) = Cardinality(Expected("A", ipv4)) + Cardinality(Expected("AAAA", ipv6))

\* C6: a finished Flow B run that extracted at least one address has issued
\* exactly one provider call, against the configured zone, whose batch holds
\* exactly one UPSERT of type A (TTL 300, the configured record name, value
\* ipv4) iff ipv4 is present, exactly one of type AAAA (same, value ipv6) iff
\* ipv6 is present, and nothing else.
C6_OneBatchOneDirectivePerFamily ==
    (Extracted /\ Exited /\ (~Absent(ipv4) \/ ~Absent(ipv6))) =>
        /\ CountIssued("dns_upsert") = 1
        /\ \A i \in 1..Len(calls) :
             calls[i].kind = "dns_upsert" =>
                /\ calls[i].zone = env["ROUTE53_ZONE_ID"]
                /\ BatchIsExactly(calls[i].changes)

C6_Witness ==
    /\ Extracted /\ Exited /\ ipv4 = V4 /\ ipv6 = NoneVal
    /\ CountIssued("dns_upsert") = 1
    /\ calls[Len(calls)].changes = <<Directive("A", V4)>>

FirstGatewayIndex(l) ==
    CHOOSE i \in 1..Len(l) : GatewayAt(l, i) /\ \A j \in 1..(i - 1) : ~GatewayAt(l, j)
GatewayListed ==
    /\ flow = "B" /\ Len(resps) >= 2
    /\ \E i \in 1..Len(DeviceListOf(resps[2])) : GatewayAt(DeviceListOf(resps[2]), i)
FirstListed == DeviceListOf(resps[2])[FirstGatewayIndex(DeviceListOf(resps[2]))]

\* C7: in Flow B, when the device list holds a gateway, the selected device
\* is the first one in listed order whose type is ugw, udm or ucg; once
\* extracted, ipv4 is that device's wan1 ip and ipv6 is element 0 of its wan1
\* ipv6 list when that is a non-empty list, and absent otherwise.
C7_FirstGatewayFirstIPv6 ==
    GatewayListed =>
        /\ gateway_device = <<FirstListed>>
        /\ Extracted =>
            /\ ipv4 = FirstListed.wan1.ip
            /\ ipv6 = IF FirstListed.wan1.ipv6.kind = "list"
                         /\ Len(FirstListed.wan1.ipv6.items) > 0
                      THEN FirstListed.wan1.ipv6.items[1]
                      ELSE NoneVal

C7_Witness ==
    /\ GatewayListed /\ Extracted
    /\ Len(DeviceListOf(resps[2])) = 2
    /\ DeviceListOf(resps[2])[1].type = "usw"
    /\ DeviceListOf(resps[2])[2].type = "udm"
    /\ DeviceListOf(resps[2])[2].wan1.ipv6.items = <<V6a, V6b>>
    /\ ipv4 = V4 /\ ipv6 = V6a

\* The text t is the text body without its leading and trailing whitespace.
IsTrimOf(t, body) ==
    \E a, b \in 0..Len(body) :
        /\ a + b <= Len(body)
        /\ t = SubSeq(body, a + 1, Len(body) - b)
        /\ \A i \in 1..a : body[i] \in {" ", "\n"}
        /\ \A i \in (Len(body) - b + 1)..Len(body) : body[i] \in {" ", "\n"}
        /\ t /= <<>> => (t[1] \notin {" ", "\n"} /\ t[Len(t)] \notin {" ", "\n"})
BlankBody(body) == \A i \in 1..Len(body) : body[i] \in {" ", "\n"}
EchoAnswered == flow = "A" /\ Len(resps) >= 1
SkippedCleanly ==
    /\ current_ip.none \/ current_ip.text = <<>>
    /\ Exited /\ exitCode = 0 /\ ~Issued("dns_upsert")
PassedTrimmedBody ==
    /\ pc \in {"update_dns", "exited"}
    /\ \A i \in 1..Len(calls) :
         calls[i].kind = "dns_upsert" =>
            /\ Len(calls[i].changes) = 1
            /\ IsTrimOf(calls[i].changes[1].Value, resps[1].body)
    /\ Exited => (CountIssued("dns_upsert") = 1 /\ exitCode = 0)

EchoFailedAsClaimed ==
    \/ resps[1].kind = "error"
    \/ resps[1].status \notin 200..299
    \/ BlankBody(resps[1].body)

\* C8 (as claimed): in Flow A, when the echo GET fails by transport error,
\* returns a non-2xx status or returns an empty or whitespace-only body, the
\* source yields no address, no DNS upsert is made and the run ends with exit
\* code 0; otherwise the address passed to the upsert is the trimmed body.
C8_Non2xxSkips ==
    EchoAnswered => IF EchoFailedAsClaimed THEN SkippedCleanly ELSE PassedTrimmedBody

EchoFailed ==
    \/ resps[1].kind = "error"
    \/ ErrorStatus(resps[1].status)
    \/ BlankBody(resps[1].body)

\* C8 (amended): the same with "a 4xx or 5xx status" in place of "a non-2xx
\* status": a response of any other status and a non-blank body is a success.
C8_ErrorStatusSkips ==
    EchoAnswered => IF EchoFailed THEN SkippedCleanly ELSE PassedTrimmedBody

C8_Witness ==
    /\ EchoAnswered /\ resps[1].kind = "http" /\ resps[1].status = 503
    /\ resps[1].body = <<"7">>
    /\ SkippedCleanly /\ calls = <<EchoGet>>

\* C9: in Flow B no finished run has its session still open: a run that got
\* past the configuration check opened the session and ends with it closed,
\* whether it ends after an update or a skip, a login failure, a missing
\* gateway, or an exception raised during the DNS update.
C9_SessionClosedOnEveryExit ==
    (flow = "B" /\ Exited) =>
        /\ session /= "open"
        /\ ~ConfigIncomplete => session = "closed"

C9_Witness ==
    /\ flow = "B" /\ Exited /\ session = "closed"
    /\ dnsOutcome = "OtherError" /\ exitCode = 1

KindsIssued == [i \in 1..Len(calls) |-> calls[i].kind]
CallOrder == <<"login_post", "devices_get", "dns_upsert">>
CallsInOrder ==
    /\ Len(calls) <= 3
    /\ KindsIssued = SubSeq(CallOrder, 1, Len(calls))
    /\ Len(calls) >= 2 => (resps[1].kind = "http" /\ ~ErrorStatus(resps[1].status))
    /\ Len(calls) = 3 => GatewayListed

\* Termination is stated through a measure: a Flow B run that has not exited
\* can always take a step, and every step moves the run strictly forward
\* through the stages of main, of which there are finitely many; with the
\* fairness of FairSpec the run therefore reaches the exited state.
Stage ==
    [p \in {"start", "unifi_login", "get_gateway_info", "extract",
            "update_route53_records", "exited"} |->
        CASE p = "start" -> 0
          [] p = "unifi_login" -> 1
          [] p = "get_gateway_info" -> 2
          [] p = "extract" -> 3
          [] p = "update_route53_records" -> 4
          [] p = "exited" -> 5]

\* C10: in every Flow B run the calls issued are, in order, a prefix of
\* login POST, device-list GET, DNS upsert (so each at most once and none
\* repeated after a failure); the device-list GET follows a login that
\* succeeded and the DNS upsert a device list that held a gateway; and every
\* run reaches the exited state.
C10_OrderedOnceAndTerminates ==
    /\ [](flow = "B" => (CallsInOrder /\ (Exited \/ ENABLED NextB)))
    /\ [][flow = "B" => Stage[pc'] > Stage[pc]]_vars

C10_Witness ==
    /\ flow = "B" /\ Exited /\ Len(calls) = 3 /\ dnsOutcome = "ClientError"

====
